---- MODULE Spec2Model ----
(***************************************************************************)
(* Model of kiln's dependency resolution engine: the resolver, the global  *)
(* package cache, the local importer and the manifest dependency list.     *)
(* The repository holds two generations of the package manager:            *)
(*   era = "legacy"     src/src/package_manager.rs                         *)
(*   era = "packaging"  src/src/packaging/package_manager.rs               *)
(* Strings are sequences of one-character strings, so that formatting and  *)
(* parsing are computed, not assumed.                                      *)
(***************************************************************************)
EXTENDS Integers, Sequences, FiniteSets, TLC

\* ------------------------------------------------------------------ bounds
\* Commands run one after the other in one behaviour.
MaxCmds == 4
\* Longest repository name and version drawn for get_global_path.
MaxStrLen == 3

\* ----------------------------------------------------------------- strings
Eras == {"legacy", "packaging"}

\* Byte value of each character used (Rust compares strings by bytes).
CharCode == [c \in {" ", "/", "0", "1", "2", "_", "a", "b", "c", "d", "o", "s"} |->
               CASE c = " " -> 32 [] c = "/" -> 47 [] c = "0" -> 48 [] c = "1" -> 49
                 [] c = "2" -> 50 [] c = "_" -> 95 [] c = "a" -> 97 [] c = "b" -> 98
                 [] c = "c" -> 99 [] c = "d" -> 100 [] c = "o" -> 111 [] c = "s" -> 115]

RECURSIVE StrLess(_, _)
\* s < t in Rust's String ordering (lexicographic by bytes).
StrLess(s, t) ==
    IF t = <<>> THEN FALSE
    ELSE IF s = <<>> THEN TRUE
    ELSE IF CharCode[Head(s)] < CharCode[Head(t)] THEN TRUE
    ELSE IF CharCode[Head(s)] > CharCode[Head(t)] THEN FALSE
    ELSE StrLess(Tail(s), Tail(t))

RECURSIVE SplitOn(_, _)
\* The pieces of s between occurrences of the character sep (empty pieces kept).
SplitOn(s, sep) ==
    IF \A i \in 1..Len(s) : s[i] # sep THEN <<s>>
    ELSE LET k == CHOOSE i \in 1..Len(s) : s[i] = sep /\ \A j \in 1..(i-1) : s[j] # sep
         IN <<SubSeq(s, 1, k-1)>> \o SplitOn(SubSeq(s, k+1, Len(s)), sep)

\* Path::components of a relative or absolute path string: empty pieces vanish.
Components(s) == SelectSeq(SplitOn(s, "/"), LAMBDA p : p # <<>>)

\* PathBuf::join: an absolute argument replaces the base.
PathJoin(base, s) ==
    IF s # <<>> /\ Head(s) = "/" THEN << <<"/">> >> \o Components(s)
    ELSE base \o Components(s)

\* PACKAGE_DIR, the root of the global cache (a path is a sequence of components).
PACKAGE_DIR == << <<"/">>, <<"packages">> >>

\* Option<T>: <<>> is None, <<x>> is Some(x).
None == <<>>
Some(x) == <<x>>

\* ------------------------------------------------------------ URIs, paths
GITHUB == "https://github.com/"

\* format!("https://github.com/{}/{}", owner, proj_name)
RepoName(owner, repo) == <<GITHUB>> \o owner \o <<"/">> \o repo

\* parse_github_uri: the text after "github.com/", a trailing ".com" or ".git"
\* dropped, split at the first "/". <<>> when the uri is invalid.
ParseGithubUri(uri) ==
    IF uri = <<>> \/ Head(uri) # GITHUB THEN None
    ELSE LET rest == Tail(uri)
             cut  == IF rest # <<>> /\ rest[Len(rest)] \in {".git", ".com"}
                     THEN SubSeq(rest, 1, Len(rest) - 1) ELSE rest
             parts == SplitOn(cut, "/")
         IN IF Len(parts) < 2 THEN None
            ELSE Some([owner |-> parts[1],
                       repo  |-> SubSeq(cut, Len(parts[1]) + 2, Len(cut))])

\* Dependnecy::new
NewDependency(owner, repo, version) ==
    [uri |-> RepoName(owner, repo) \o <<".git">>, version |-> version,
     include_dir |-> None, source_dir |-> None]

DepOwner(dep) == ParseGithubUri(dep.uri)[1].owner
DepRepoName(dep) == ParseGithubUri(dep.uri)[1].repo

\* Package::get_global_path: <PACKAGE_DIR>/<owner>_<repo>_<tag>
PackageGlobalPath(owner, repo, tag) ==
    PathJoin(PACKAGE_DIR, owner \o <<"_">> \o repo \o <<"_">> \o tag)

\* Dependnecy::get_global_path: <PACKAGE_DIR>/<owner>/<repo>/<version>
DependencyGlobalPath(dep) ==
    PathJoin(PathJoin(PathJoin(PACKAGE_DIR, DepOwner(dep)), DepRepoName(dep)), dep.version)

\* The cache path of a package in each generation of the package manager.
GlobalPath(e, owner, repo, version) ==
    IF e = "legacy" THEN PackageGlobalPath(owner, repo, version)
    ELSE DependencyGlobalPath(NewDependency(owner, repo, version))

\* PartialEq for Dependnecy: weak equality, owner and repository only.
WeakEq(a, b) == DepOwner(a) = DepOwner(b) /\ DepRepoName(a) = DepRepoName(b)

\* Dependnecy::add_dependency: push unless a weakly equal record is present.
AddDependency(deps, new_dep) ==
    IF \E i \in 1..Len(deps) : WeakEq(deps[i], new_dep) THEN deps
    ELSE Append(deps, new_dep)

\* ------------------------------------------------------------ tag choice
\* Iterator::max_by over the tag names: the last of the maximal elements.
MaxTagIndex(tags) ==
    CHOOSE i \in 1..Len(tags) :
        /\ \A j \in 1..Len(tags) : ~StrLess(tags[i], tags[j])
        /\ \A j \in (i+1)..Len(tags) : StrLess(tags[j], tags[i])

\* add_package without its `!assigned` check: a version that is no tag falls
\* back to the initial `&tags[0]`.
SelectTag_FallsBack(e, tags, version) ==
    IF version # None
    THEN IF \E i \in 1..Len(tags) : tags[i] = version[1]
         THEN [ok |-> TRUE, tag |-> version[1]]
         ELSE [ok |-> TRUE, tag |-> tags[1]]
    ELSE IF e = "legacy"
         THEN [ok |-> TRUE, tag |-> tags[MaxTagIndex(tags)]]
         ELSE [ok |-> TRUE, tag |-> tags[Len(tags)]]

\* add_package's choice of the tag: [ok, tag]. version is an Option.
\* legacy: the first tag named version, else the maximal name.
\* packaging: the last tag named version, else tags.last().
\* Called with a non-empty tag list only.
SelectTag(e, tags, version) ==
    IF version # None
    THEN IF \E i \in 1..Len(tags) : tags[i] = version[1]
         THEN [ok |-> TRUE, tag |-> version[1]]
         ELSE [ok |-> FALSE, tag |-> <<>>]
    ELSE IF e = "legacy"
         THEN [ok |-> TRUE, tag |-> tags[MaxTagIndex(tags)]]
         ELSE [ok |-> TRUE, tag |-> tags[Len(tags)]]

\* ---------------------------------------------------- the remote repositories
\* What GitHub serves: the tag list of each repository and the archive of each
\* tag. Names are chosen without "_" and "/" so that cache paths do not clash.
O == <<"o">>
V1 == <<"1">>
V2 == <<"2">>
V10 == <<"1", "0">>
RepoNames == {<<"a">>, <<"b">>, <<"c">>, <<"d">>, <<"e">>, <<"f">>}

\* The body of GET /repos/<owner>/<repo>/tags, in the order served.
RemoteTags(owner, repo) ==
    CASE repo = <<"a">> -> <<V2, V1>>
      [] repo = <<"b">> -> <<V2, V10>>
      [] repo = <<"c">> -> <<V1>>
      [] repo = <<"e">> -> <<V1>>
      [] repo = <<"f">> -> <<V1>>
      [] repo = <<"g">> -> <<V1>>
      [] OTHER -> <<>>

\* A dependency record as a published Kiln.toml lists it.
Decl(repo, version) == NewDependency(O, repo, version)

\* Kiln.toml of the archive of a tag: None when the archive has none, else
\* Some([dependency, src_dir, include_dir]) with the three optional fields.
ArchiveConfig(owner, repo, tag) ==
    CASE repo = <<"a">> /\ tag = V1 ->
            Some([dependency |-> Some(<<Decl(<<"b">>, V10), Decl(<<"c">>, <<>>)>>),
                  src_dir |-> None, include_dir |-> None])
      [] repo = <<"a">> /\ tag = V2 ->
            Some([dependency |-> Some(<<Decl(<<"b">>, V2), Decl(<<"c">>, V2)>>),
                  src_dir |-> None, include_dir |-> None])
      [] repo = <<"b">> /\ tag = V10 ->
            Some([dependency |-> Some(<<Decl(<<"a">>, V2)>>),
                  src_dir |-> None, include_dir |-> None])
      [] repo = <<"b">> /\ tag = V2 ->
            Some([dependency |-> Some(<<Decl(<<"a">>, V1)>>),
                  src_dir |-> None, include_dir |-> None])
      [] repo = <<"f">> ->
            Some([dependency |-> None, src_dir |-> None, include_dir |-> None])
      [] repo = <<"g">> ->
            Some([dependency |-> Some(<<Decl(<<"b">>, V2), Decl(<<"c">>, <<>>)>>),
                  src_dir |-> Some(<<"lib">>), include_dir |-> None])
      [] OTHER -> None

\* The directories of the archive (top folder stripped) and the files in each.
ArchiveDirs(owner, repo, tag) ==
    CASE repo = <<"a">> ->
            (<< <<"src">> >> :> {<<"a", ".c">>, <<"util", ".c">>, <<"x", ".h">>})
            @@ (<< <<"include">> >> :> {<<"a", ".h">>})
      [] repo = <<"b">> ->
            (<< <<"src">> >> :> {<<"b", ".c">>, <<"util", ".c">>})
            @@ (<< <<"include">> >> :> {<<"b", ".h">>})
      [] repo = <<"c">> ->
            (<< <<"src">> >> :> {<<".gitkeep">>})
            @@ (<< <<"include">> >> :> {<<"c", ".h">>})
      [] repo = <<"e">> ->
            (<< <<"lib">> >> :> {<<"e", ".c">>, <<"e", ".a">>, <<"x", ".h">>})
      [] repo = <<"f">> ->
            (<< <<"src">> >> :> {<<"f", ".c">>})
            @@ (<< <<"include">> >> :> {<<"f", ".h">>})
      [] repo = <<"g">> ->
            (<< <<"lib">> >> :> {<<"g", ".c">>})
            @@ (<< <<"include">> >> :> {<<"g", ".h">>})
      [] OTHER -> << >>

\* Lines the operator may type at add_package's two prompts.
PromptLines == { <<"lib">>, <<" ", "/", "lib", "/">> }

\* The project directory (env::current_dir) and the regular files in it.
CWD == << <<"/">>, <<"home">>, <<"proj">> >>

\* -------------------------------------------------------- the global cache
\* cache maps each existing package directory to [state, owner, repo, tag,
\* pkgfile]: state "partial" (created, nothing unpacked) or "complete" (the
\* archive of owner/repo/tag unpacked); pkgfile is the Option of the written
\* package metadata [include_dir, source_dir].

IsPrefix(p, q) == Len(p) <= Len(q) /\ SubSeq(q, 1, Len(p)) = p

\* install_globally without its early return: no path is ever found to exist.
PathExists_Never(c, path) == FALSE

\* install_globally returning early only for a directory that is unpacked.
PathExists_Unpacked(c, path) ==
    \E q \in DOMAIN c : IsPrefix(path, q) /\ c[q].state = "complete"

\* Path::exists on a cache path: the directory or one below it was created.
PathExists(c, path) == \E q \in DOMAIN c : IsPrefix(path, q)

Unpacked(c, path) == path \in DOMAIN c /\ c[path].state = "complete"

\* The parsed <path>/Kiln.toml, None when the file does not exist.
ConfigAt(c, path) ==
    IF Unpacked(c, path) THEN ArchiveConfig(c[path].owner, c[path].repo, c[path].tag)
    ELSE None

\* The directories under <path>.
DirsAt(c, path) ==
    IF Unpacked(c, path) THEN ArchiveDirs(c[path].owner, c[path].repo, c[path].tag)
    ELSE << >>

PkgFileAt(c, path) == IF path \in DOMAIN c THEN c[path].pkgfile ELSE None

\* Config::get_src_dir / Config::get_include_dir: the override or the default.
ConfigSrcDir(cfg) == IF cfg.src_dir # None THEN cfg.src_dir[1] ELSE <<"src">>
ConfigIncludeDir(cfg) == IF cfg.include_dir # None THEN cfg.include_dir[1] ELSE <<"include">>

\* KilnPackageConfig::new(include_dir, source_dir)
NewPackageConfig(include_dir, source_dir) ==
    [include_dir |-> include_dir, source_dir |-> source_dir]

\* Package::get_source_dir: Some(dir), or None for the PkgAmbiguous error.
GetSourceDir(c, path) ==
    IF ConfigAt(c, path) # None THEN Some(ConfigSrcDir(ConfigAt(c, path)[1]))
    ELSE IF PkgFileAt(c, path) # None THEN Some(PkgFileAt(c, path)[1].source_dir)
    ELSE None

\* Package::get_include_dir
GetIncludeDir(c, path) ==
    IF ConfigAt(c, path) # None THEN Some(ConfigIncludeDir(ConfigAt(c, path)[1]))
    ELSE IF PkgFileAt(c, path) # None THEN Some(PkgFileAt(c, path)[1].include_dir)
    ELSE None

WritePkgFile(c, path, pkg_cfg) == [c EXCEPT ![path].pkgfile = Some(pkg_cfg)]

\* generate_package_file without its look at the metadata file.
GeneratePackageFile_Rewrites(c, path) ==
    IF ConfigAt(c, path) # None
    THEN [res |-> "Ok",
          cache |-> WritePkgFile(c, path,
                       NewPackageConfig(ConfigIncludeDir(ConfigAt(c, path)[1]),
                                        ConfigSrcDir(ConfigAt(c, path)[1])))]
    ELSE IF << <<"include">> >> \in DOMAIN DirsAt(c, path)
            /\ << <<"src">> >> \in DOMAIN DirsAt(c, path)
    THEN [res |-> "Ok",
          cache |-> WritePkgFile(c, path, NewPackageConfig(<<"include">>, <<"src">>))]
    ELSE [res |-> "PkgAmbiguous", cache |-> c]

\* generate_package_file: [res, cache]; res is "Ok" or "PkgAmbiguous".
GeneratePackageFile(c, path) ==
    IF PkgFileAt(c, path) # None THEN [res |-> "Ok", cache |-> c]
    ELSE IF ConfigAt(c, path) # None
    THEN [res |-> "Ok",
          cache |-> WritePkgFile(c, path,
                       NewPackageConfig(ConfigIncludeDir(ConfigAt(c, path)[1]),
                                        ConfigSrcDir(ConfigAt(c, path)[1])))]
    ELSE IF << <<"include">> >> \in DOMAIN DirsAt(c, path)
            /\ << <<"src">> >> \in DOMAIN DirsAt(c, path)
    THEN [res |-> "Ok",
          cache |-> WritePkgFile(c, path, NewPackageConfig(<<"include">>, <<"src">>))]
    ELSE [res |-> "PkgAmbiguous", cache |-> c]

\* str::trim and str::trim_matches('/')
RECURSIVE TrimStart(_, _)
TrimStart(s, chars) ==
    IF s # <<>> /\ Head(s) \in chars THEN TrimStart(Tail(s), chars) ELSE s
RECURSIVE TrimEnd(_, _)
TrimEnd(s, chars) ==
    IF s # <<>> /\ s[Len(s)] \in chars THEN TrimEnd(SubSeq(s, 1, Len(s) - 1), chars) ELSE s
Trim(s) == TrimEnd(TrimStart(s, {" ", "\n"}), {" ", "\n"})
TrimMatchesSlash(s) == TrimEnd(TrimStart(s, {"/"}), {"/"})

\* The metadata add_package writes after its two prompts. read_line appends
\* to stdin_buf, which is not cleared between the prompts.
PromptedPackageConfig(line1, line2) ==
    LET buf1 == line1 \o <<"\n">>
        source_dir == TrimMatchesSlash(Trim(buf1))
        buf2 == buf1 \o line2 \o <<"\n">>
        include_dir == TrimMatchesSlash(Trim(buf2))
    IN NewPackageConfig(include_dir, source_dir)

\* ------------------------------------------------------- the local importer
\* local maps each category to the files of dependencies/<category>/, each
\* file to the package <<owner, repo, tag>> its bytes were copied from.
Categories == <<"header_files", "source_code", "shared_objects", "static_libraries">>

\* copy_deps_global_to_local's extension set of a category.
FileExt(dep_type) ==
    CASE dep_type = "source_code" -> {".c", ".cpp", ".cu"}
      [] dep_type = "header_files" -> {".h", ".hpp", ".cuh"}
      [] dep_type = "shared_objects" -> {".so", ".dylib", ".dll"}
      [] dep_type = "static_libraries" -> {".a", ".lib"}

\* global_source_dir.read_dir(): Some(the files), None when it is no directory.
ReadDir(c, path, rel) ==
    IF Trim(rel) \in {<<>>, <<".">>, <<".", "/">>}
    THEN IF path \in DOMAIN c THEN Some({}) ELSE None
    ELSE IF Components(rel) \in DOMAIN DirsAt(c, path)
         THEN Some(DirsAt(c, path)[Components(rel)])
         ELSE None

\* remove_deps_local: iterates the COMPONENTS of the path dependencies/<dep_type>
\* and of the package's source directory, and removes (relative to the project
\* directory) each component of the latter that is one of the former. No such
\* name is a regular file of the project directory, so a hit is an I/O error.
\* [ok, local].
RemoveDepsLocal(c, path, dep_type, loc) ==
    LET dir == CWD \o << <<"dependencies">>, <<dep_type>> >>
        file_names == {dir[i] : i \in 1..Len(dir)}
        src == GetSourceDir(c, path)
        comps == IF src = None THEN <<>> ELSE Components(src[1])
        hit == \E i \in 1..Len(comps) : comps[i] \in file_names
    IN [ok |-> ~hit, local |-> loc]

RECURSIVE CopyFiles_Overwrites(_, _, _, _, _, _)
\* The loop without its look at new_p.exists(): fs::copy replaces the file.
CopyFiles_Overwrites(files, c, path, dep_type, origin, loc) ==
    IF files = <<>> THEN [out |-> "Ok", local |-> loc]
    ELSE IF Head(files)[Len(Head(files))] \notin FileExt(dep_type)
    THEN CopyFiles_Overwrites(Tail(files), c, path, dep_type, origin, loc)
    ELSE CopyFiles_Overwrites(Tail(files), c, path, dep_type, origin,
            [loc EXCEPT ![dep_type] =
                [f \in DOMAIN @ \cup {Head(files)} |->
                    IF f = Head(files) THEN origin ELSE @[f]]])

RECURSIVE CopyFiles(_, _, _, _, _, _)
\* The loop of copy_deps_global_to_local over the directory entries, in the
\* order read_dir yields them. [out, local]; out is "Ok", "Io" or "Exit".
CopyFiles(files, c, path, dep_type, origin, loc) ==
    IF files = <<>> THEN [out |-> "Ok", local |-> loc]
    ELSE LET g_filename == Head(files)
         IN IF g_filename[Len(g_filename)] \notin FileExt(dep_type)
            THEN CopyFiles(Tail(files), c, path, dep_type, origin, loc)
            ELSE IF g_filename \in DOMAIN loc[dep_type]
            THEN LET r == RemoveDepsLocal(c, path, dep_type, loc)
                 IN [out |-> IF r.ok THEN "Exit" ELSE "Io", local |-> r.local]
            ELSE CopyFiles(Tail(files), c, path, dep_type, origin,
                           [loc EXCEPT ![dep_type] = (g_filename :> origin) @@ @])

\* copy_deps_global_to_local(pkg, dep_type); order lists the directory entries
\* the way read_dir yields them. Every category is read from get_source_dir().
CopyDepsGlobalToLocal(c, path, dep_type, origin, loc, order) ==
    LET src == GetSourceDir(c, path)
    IN IF src = None THEN [out |-> "Ok", local |-> loc]
       ELSE LET dir == ReadDir(c, path, src[1])
            IN IF dir = None THEN [out |-> "Io", local |-> loc]
               ELSE CopyFiles(SelectSeq(order, LAMBDA f : f \in dir[1]),
                              c, path, dep_type, origin, loc)

RECURSIVE CopyAll(_, _, _, _, _, _)
\* add_package's four copy_deps_global_to_local calls, stopping at the first
\* that does not return Ok.
\* [out, local, cat, before]: cat is the category of the failing call and before
\* the local namespace when that call began.
CopyAll(cats, c, path, origin, loc, order) ==
    IF cats = <<>> THEN [out |-> "Ok", local |-> loc, cat |-> "", before |-> loc]
    ELSE LET r == CopyDepsGlobalToLocal(c, path, Head(cats), origin, loc, order)
         IN IF r.out # "Ok"
            THEN [out |-> r.out, local |-> r.local, cat |-> Head(cats), before |-> loc]
            ELSE CopyAll(Tail(cats), c, path, origin, r.local, order)

\* ------------------------------------------------------------- add_package
\* PkgError values: [kind, msg].
Error(kind, msg) == [kind |-> kind, msg |-> msg]
NoError == Error("", <<>>)
NoDep == [uri |-> <<>>, version |-> <<>>, include_dir |-> None, source_dir |-> None]

\* The outcome of an add_package task: kind is "Ok" (chain, dep), "Err" (err),
\* "Panic" (the task panicked: a JoinError for the resolver) or "Exit" (the
\* task ended the process); cache and local are the stores it leaves.
Outcome(kind, err, chain, dep, c, loc) ==
    [kind |-> kind, err |-> err, chain |-> chain, dep |-> dep, cache |-> c, local |-> loc,
     cat |-> "", before |-> loc]

\* The outcome of a failed import: the category and the namespace before it.
ImportFailed(kind, err, c, cp) ==
    [kind |-> kind, err |-> err, chain |-> <<>>, dep |-> NoDep, cache |-> c,
     local |-> cp.local, cat |-> cp.cat, before |-> cp.before]

\* The error add_package returns for a version that is no tag.
VersionMissing(e, owner, repo, v) ==
    IF e = "legacy"
    THEN Error("UsrErr", <<"Version ">> \o v \o <<" doesn't exist for ">> \o RepoName(owner, repo))
    ELSE Error("UsrErr", <<"Version ">> \o v \o <<" does not exist for https:://">>
                            \o owner \o <<"/">> \o repo)

NoVersions(owner, repo) ==
    Error("UsrErr", <<"No versions available for ">> \o RepoName(owner, repo))

\* legacy add_package from the metadata on: the four imports, the dependency
\* record and the next frontier entries. c1 is the cache with the metadata.
LegacyImport(c1, loc, owner, repo, tag, order) ==
    LET path == PackageGlobalPath(owner, repo, tag)
        cp == CopyAll(Categories, c1, path, <<owner, repo, tag>>, loc, order)
        kiln_toml_dep == [uri |-> RepoName(owner, repo), version |-> tag,
                          include_dir |-> GetIncludeDir(c1, path),
                          source_dir |-> GetSourceDir(c1, path)]
        cfg == ConfigAt(c1, path)
        chain_deps == cfg[1].dependency[1]
        chain_dep_ids == [i \in 1..Len(chain_deps) |-> <<owner, repo, chain_deps[i].version>>]
    IN IF cp.out = "Exit" THEN ImportFailed("Exit", NoError, c1, cp)
       ELSE IF cp.out = "Io" THEN ImportFailed("Err", Error("Io", <<>>), c1, cp)
       ELSE IF cfg = None THEN Outcome("Ok", NoError, <<>>, kiln_toml_dep, c1, cp.local)
       ELSE IF cfg[1].dependency = None THEN Outcome("Panic", NoError, <<>>, NoDep, c1, cp.local)
       ELSE Outcome("Ok", NoError, chain_dep_ids, kiln_toml_dep, c1, cp.local)

\* legacy add_package from the return of install_globally on: the metadata
\* (generated, or written from the two prompted lines), then the imports.
LegacyAfterInstall(c, loc, owner, repo, tag, line1, line2, order) ==
    LET path == PackageGlobalPath(owner, repo, tag)
        g == GeneratePackageFile(c, path)
    IN CHOOSE o \in {LegacyImport(c1, loc, owner, repo, tag, order) :
                        c1 \in {IF g.res = "PkgAmbiguous"
                                THEN WritePkgFile(g.cache, path, PromptedPackageConfig(line1, line2))
                                ELSE g.cache}} : TRUE

\* packaging add_package from the return of install_globally on.
PackagingAfterInstall(c, loc, owner, repo, tag) ==
    LET pkg == NewDependency(owner, repo, tag)
        cfg == ConfigAt(c, DependencyGlobalPath(pkg))
        chain_deps == IF cfg = None \/ cfg[1].dependency = None THEN <<>>
                      ELSE cfg[1].dependency[1]
        bad == \E i \in 1..Len(chain_deps) : ParseGithubUri(chain_deps[i].uri) = None
        chain_dep_ids == [i \in 1..Len(chain_deps) |->
                            <<DepOwner(chain_deps[i]), DepRepoName(chain_deps[i]),
                              chain_deps[i].version>>]
    IN IF bad THEN Outcome("Err", Error("UsrErr", <<"Invalid GitHub uri">>), <<>>, NoDep, c, loc)
       ELSE Outcome("Ok", NoError, chain_dep_ids, pkg, c, loc)

AfterInstall(e, c, loc, owner, repo, tag, line1, line2, order) ==
    IF e = "legacy" THEN LegacyAfterInstall(c, loc, owner, repo, tag, line1, line2, order)
    ELSE PackagingAfterInstall(c, loc, owner, repo, tag)

\* --------------------------------------------------------------- check_pkgs
RECURSIVE CheckPkgH(_, _, _)
RECURSIVE CheckChain(_, _, _)
\* check_pkg_h(dep, output, pkgs_visited) with acc = [output, visited].
CheckPkgH(dep, acc, c) ==
    IF dep.uri \in acc.visited THEN acc
    ELSE LET acc1 == [acc EXCEPT !.visited = @ \cup {dep.uri}]
             pkg == <<DepOwner(dep), DepRepoName(dep), dep.version>>
             cfg == ConfigAt(c, DependencyGlobalPath(dep))
         IN IF ~PathExists(c, DependencyGlobalPath(dep))
            THEN IF \E i \in 1..Len(acc1.output) : acc1.output[i] = pkg THEN acc1
                 ELSE [acc1 EXCEPT !.output = Append(@, pkg)]
            ELSE IF cfg = None \/ cfg[1].dependency = None THEN acc1
                 ELSE CheckChain(cfg[1].dependency[1], acc1, c)

\* The loop over the dependency list, in check_pkgs and in check_pkg_h.
CheckChain(deps, acc, c) ==
    IF deps = <<>> THEN acc
    ELSE CheckChain(Tail(deps), CheckPkgH(Head(deps), acc, c), c)

\* check_pkgs(config): the triples reported as not installed.
CheckPkgs(deps, c) == CheckChain(deps, [output |-> <<>>, visited |-> {}], c).output

\* All orderings of a finite set (the orders read_dir may yield).
Perms(S) == {f \in [1..Cardinality(S) -> S] : \A i, j \in 1..Cardinality(S) : f[i] = f[j] => i = j}

\* ------------------------------------------------------------- build_sys
\* File names and path strings are token sequences: <<"src", "/", "util", ".c">>.
\* A file is [name, lines]; a line of text is a token sequence.

\* Path::to_str of a cache path (a sequence of components below "/").
RECURSIVE PathStr(_)
PathStr(path) ==
    IF path = <<>> THEN <<>>
    ELSE IF Head(path) = <<"/">> THEN PathStr(Tail(path))
    ELSE <<"/">> \o Head(path) \o PathStr(Tail(path))

\* The file name of a path string: what follows its last "/".
Basename(s) == SplitOn(s, "/")[Len(SplitOn(s, "/"))]

\* str::ends_with on a file name whose last token is its extension.
EndsWith(name, ext) == name # <<>> /\ name[Len(name)] = ext

\* Language::file_ext of a C project, STATIC_LIB_FE and EXECUTABLE_FE on linux.
LanguageExt == ".c"
STATIC_LIB_FE == ".a"
EXECUTABLE_FE == <<>>

\* link_sys_lib's table of headers and linker flags (the rows the model draws).
c_lib_mappings ==
    << << <<"<", "math.h", ">">>, <<"-lm">> >>, << <<"<", "omp.h", ">">>, <<"-fopenmp">> >>,
       << <<"<", "pthread.h", ">">>, <<"-pthread">> >> >>

\* One line "#include <h>" and one line "#include "local.h"" of a source file.
IncludeLine(h) == <<"#include", " ", "<", h, ">">>
LocalIncludeLine == <<"#include", " ", "\"", "util.h", "\"">>

\* extract_include_statements over the files of <path>/src: of every line that
\* starts with "#include" and ends with ">", "<" and what follows the first "<".
ExtractIncludeStatements(files) ==
    {<<"<">> \o SubSeq(l, (CHOOSE k \in 1..Len(l) : l[k] = "<" /\ \A j \in 1..(k-1) : l[j] # "<") + 1,
                       Len(l)) :
        l \in {ln \in UNION {{f.lines[i] : i \in 1..Len(f.lines)} : f \in files} :
                 ln # <<>> /\ Head(ln) = "#include" /\ ln[Len(ln)] = ">"}}

\* link_sys_lib(path): the loop over c_lib_mappings is commented out, so the
\* vector returned is the empty one it starts with.
LinkSysLib(files) == <<>>

\* CompileCmdBuilder::default() with the compiler set.
NewCompileCmd(compiler) ==
    [source_files |-> {}, include_dirs |-> {}, static_libs |-> {}, dynamic_libs |-> {},
     sys_libs |-> {}, compiler |-> compiler, output_filename |-> None]

\* fs::read_dir of a directory of a tree (directory string -> set of files).
FilesIn(dirs, d) == IF d \in DOMAIN dirs THEN dirs[d] ELSE {}

\* The paths of the files of directory d whose name ends with ext.
PathsWithExt(dirs, d, ext) ==
    {d \o <<"/">> \o f.name : f \in {g \in FilesIn(dirs, d) : EndsWith(g.name, ext)}}

SeqToSet(q) == {q[i] : i \in 1..Len(q)}

\* ProjBuilder::new(config) on the project tree dirs.
ProjBuilderNew(cfg, dirs) ==
    [ingots |-> {}, reads |-> <<>>,
     compile_cmd |->
        [NewCompileCmd(cfg.compiler) EXCEPT
            !.source_files = UNION {PathsWithExt(dirs, d, LanguageExt) : d \in SeqToSet(cfg.src_dirs)},
            !.static_libs = IF cfg.staticlib_dirs = None THEN {}
                            ELSE UNION {PathsWithExt(dirs, d, STATIC_LIB_FE) :
                                           d \in SeqToSet(cfg.staticlib_dirs[1])},
            !.include_dirs = SeqToSet(cfg.include_dirs)]]

\* ---- the ingots installed in the global cache
\* <global path>/build/ingot of an installed ingot: its files and its ingot.toml.
IngotA == NewDependency(O, <<"a">>, V1)
IngotB == NewDependency(O, <<"b">>, V10)
IngotA2 == NewDependency(O, <<"a">>, V2)
KnownIngots == {IngotA, IngotB, IngotA2}

SrcFile(name) == [name |-> name, lines |-> <<>>]

IngotFiles(ingot) ==
    CASE ingot = IngotA -> {SrcFile(<<"util", ".c">>), SrcFile(<<"a", ".h">>),
                            SrcFile(<<"liba", ".a">>)}
      [] ingot = IngotB -> {SrcFile(<<"util", ".c">>)}
      [] ingot = IngotA2 -> {SrcFile(<<"a", ".c">>), SrcFile(<<"a", ".h">>)}
      [] OTHER -> {}

IngotMetadataOf(ingot) ==
    CASE ingot = IngotA -> [sys_libs |-> <<<<"-lm">>>>, ingot_deps |-> <<IngotB>>]
      [] ingot = IngotB -> [sys_libs |-> <<>>, ingot_deps |-> <<IngotA>>]
      [] OTHER -> [sys_libs |-> <<>>, ingot_deps |-> <<>>]

\* The look at self.ingots taken for a hit only after three directories
\* were read.
Attached_Late(b, path) == path \in b.ingots /\ Len(b.reads) >= 3

\* !self.ingots.insert(path): the path was attached before. reads lists the
\* ingot directories read with fs::read_dir, in order.
Attached(b, path) == path \in b.ingots

RECURSIVE AttachIngot(_, _)
RECURSIVE AttachIngots(_, _)
\* ProjBuilder::attach_ingot(ingot) on builder b.
AttachIngot(b, ingot) ==
    LET path == PathStr(DependencyGlobalPath(ingot))
        ingot_dir == path \o <<"/", "build", "/", "ingot">>
        tree == (ingot_dir :> IngotFiles(ingot))
        cc == b.compile_cmd
        sources == PathsWithExt(tree, ingot_dir, LanguageExt)
        b1 == [ingots |-> b.ingots \cup {path}, reads |-> Append(b.reads, path),
               compile_cmd |->
                  [cc EXCEPT
                     !.source_files = @ \cup sources,
                     !.static_libs = @ \cup (PathsWithExt(tree, ingot_dir, STATIC_LIB_FE) \ sources),
                     !.dynamic_libs = @ \cup {<<"-L">> \o ingot_dir},
                     !.include_dirs = @ \cup {ingot_dir},
                     !.sys_libs = @ \cup SeqToSet(IngotMetadataOf(ingot).sys_libs)]]
    IN IF Attached(b, path) THEN b
       ELSE AttachIngots(b1, IngotMetadataOf(ingot).ingot_deps)

\* The loop over upstream ingots (and over the ingots a caller attaches).
AttachIngots(b, ingots) ==
    IF ingots = <<>> THEN b
    ELSE AttachIngots(AttachIngot(b, Head(ingots)), Tail(ingots))

\* format!("\"{}\"", s)
Quoted(s) == <<"\"">> \o s \o <<"\"">>

\* CompileCmdBuilder::generate_compile_cmd(build_type): the words of the
\* command. ords gives, for each HashSet, the order its iteration yields.
GenerateCompileCmd(cc, build_type, ords) ==
    <<cc.compiler>>
    \o (IF build_type = "dynamic_library" THEN <<<<"-shared">>>> ELSE <<>>)
    \o <<Quoted(cc.output_filename[1]), <<"-o">>>>
    \o [i \in 1..Len(ords.static_libs) |-> Quoted(ords.static_libs[i])]
    \o [i \in 1..Len(ords.source_files) |-> Quoted(ords.source_files[i])]
    \o [i \in 1..Len(ords.include_dirs) |-> Quoted(<<"-I">> \o ords.include_dirs[i])]
    \o [i \in 1..Len(ords.dynamic_libs) |-> Quoted(<<"-L">> \o ords.dynamic_libs[i])]
    \o [i \in 1..Len(ords.sys_libs) |-> Quoted(ords.sys_libs[i])]

\* The orders in which the HashSets of a command builder may be iterated.
SetOrders(cc) ==
    [static_libs : Perms(cc.static_libs), source_files : Perms(cc.source_files),
     include_dirs : Perms(cc.include_dirs), dynamic_libs : Perms(cc.dynamic_libs),
     sys_libs : Perms(cc.sys_libs)]

\* ---- the project being built
\* BuildProfile::to_str(true): the profile flag of the command line.
Profiles == {"--debug", "--release"}

\* &profile[2..], BuildProfile::to_str(false)
ProfileDir(profile) == IF profile = "--release" THEN "release" ELSE "debug"

BuildTypes == {"exe", "static_library"}

\* The process exit statuses a compile command may end with.
MaxStatus == 2

\* The lines src/main.c may hold.
MainLines ==
    {<<>>, <<IncludeLine("pthread.h")>>, <<IncludeLine("pthread.h"), IncludeLine("math.h")>>,
     <<LocalIncludeLine, IncludeLine("omp.h")>>}

\* The files of the project directory: src/ and include/.
ProjectTree(lines) ==
    (<<"src">> :> {[name |-> <<"main", ".c">>, lines |-> lines]})
    @@ (<<"include">> :> {SrcFile(<<"util", ".h">>)})

\* Config::from(Kiln.toml): toml::from_str of the manifest, nothing else; the
\* manifest's project.build_type and dependency are the ones given.
ConfigFrom(build_type, dependency) ==
    [name |-> <<"app">>, compiler |-> <<"gcc">>, src_dirs |-> <<<<"src">>>>,
     include_dirs |-> <<<<"include">>>>, staticlib_dirs |-> None,
     build_type |-> build_type, dependency |-> dependency]

\* The manifests the model draws: one or two build types, up to one ingot.
ManifestBuildTypes ==
    {<<"exe">>, <<"static_library">>, <<"exe", "static_library">>, <<"static_library", "exe">>}
ManifestDependencies == {<<>>, <<IngotA>>, <<IngotB>>}

\* The Build command before it starts, and the state of a model without one.
NewBuild(cfg, lines, profile) ==
    [pc |-> "idle", cfg |-> cfg, lines |-> lines, profile |-> profile, queue |-> <<>>,
     builder |-> None, cmdline |-> <<>>, cwd |-> <<>>, status |-> 0, outcome |-> "None",
     exit_code |-> 0, ran |-> <<>>, err |-> <<>>, staging |-> None, prior |-> None, ingot_md |-> None]
NoBuild == NewBuild(ConfigFrom(<<>>, <<>>), <<>>, "--debug")

\* ---- install_globally in several processes
\* The processes that run the tool against the same cache.
MaxProcs == 3
Procs == 1..MaxProcs

\* dir: the package directory, "absent", "partial" (created) or "complete"
\* (unpacked); requests: archive requests sent; proc: each process's position
\* in install_globally and what it returned.
NewProc == [pc |-> "start", ret |-> "None", err |-> "", saw |-> "", sent |-> FALSE]
NoRace == [dir |-> "absent", requests |-> 0, proc |-> [p \in {} |-> NewProc]]

\* ---- generate_package_file alone
NoGen == [path |-> <<>>, cache |-> << >>, calls |-> <<>>, lines |-> <<>>]

\* -------------------------------------------------------------------- state
VARIABLES
    era,             \* which generation of the package manager runs
    disk,            \* the dependency list of Kiln.toml on disk
    config,          \* the dependency list of the Config in memory
    cache,           \* the global cache
    local,           \* dependencies/<category>/ of the project
    fetched,         \* archive download requests issued, per cache path
    purges,          \* PurgeGlobalInstalls commands run
    cmd,             \* the command running: "idle", "add", "check"
    cmds,            \* commands started
    deps,            \* resolve_adding_package: the frontier being collected
    packages_added,  \* resolve_adding_package: repository names seen
    futures,         \* resolve_adding_package: the add_package tasks of the batch
    nextf,           \* index of the future the resolver awaits
    rounds,          \* iterations of the resolver's while loop in this call
    root,            \* the request of the current or last call
    ret,             \* result of the current or last call: [kind, err]
    pending,         \* handle_check_installs: triples still to resolve
    collision,       \* the last failed import: [cat, before]
    px, py, pout,    \* the path check: two triples and their cache paths
    build,           \* the Build command: project, position, command run, result
    gen,             \* generate_package_file: package directory, cache, results
    race             \* install_globally in several processes: directory, processes

vars == <<era, disk, config, cache, local, fetched, purges, cmd, cmds, deps,
          packages_added, futures, nextf, rounds, root, ret, pending, collision,
          px, py, pout, build, gen, race>>

CategorySet == {Categories[i] : i \in 1..Len(Categories)}

\* Every file of an archive, whatever its directory.
ArchiveFiles(owner, repo, tag) ==
    UNION {ArchiveDirs(owner, repo, tag)[d] : d \in DOMAIN ArchiveDirs(owner, repo, tag)}

InitStores ==
    /\ era \in Eras
    /\ disk = <<>> /\ config = <<>>
    /\ cache = << >>
    /\ local = [cat \in CategorySet |-> << >>]
    /\ fetched = << >> /\ purges = 0
    /\ cmd = "idle" /\ cmds = 0
    /\ deps = <<>> /\ packages_added = {} /\ futures = <<>> /\ nextf = 0 /\ rounds = 0
    /\ root = <<>> /\ ret = [kind |-> "None", err |-> NoError]
    /\ pending = <<>>
    /\ collision = [cat |-> "", before |-> local]

NoPath == px = <<>> /\ py = <<>> /\ pout = <<>>

Init == InitStores /\ NoPath /\ build = NoBuild /\ gen = NoGen /\ race = NoRace

\* ----------------------------------------------------- resolve_adding_package
NewTask(owner, repo, version) ==
    [owner |-> owner, repo |-> repo, version |-> version, pc |-> "find_tags",
     got_tags |-> FALSE, install |-> "NotCalled", tag |-> <<>>, res |-> [kind |-> "Pending", err |-> NoError, chain |-> <<>>, dep |-> NoDep]]

RECURSIVE SpawnBatch_Unseen(_, _, _)
\* The for loop over the frontier without its look at packages_added.
SpawnBatch_Unseen(dps, added, futs) ==
    IF dps = <<>> THEN [futures |-> futs, added |-> added]
    ELSE SpawnBatch_Unseen(Tail(dps), added \cup {RepoName(Head(dps)[1], Head(dps)[2])},
                           Append(futs, NewTask(Head(dps)[1], Head(dps)[2],
                                                IF Head(dps)[3] = <<>> THEN None
                                                ELSE Some(Head(dps)[3]))))

RECURSIVE SpawnBatch(_, _, _)
\* The for loop over the frontier: one add_package task per repository name not
\* seen before. [futures, added].
SpawnBatch(dps, added, futs) ==
    IF dps = <<>> THEN [futures |-> futs, added |-> added]
    ELSE LET dep == Head(dps)
             version == IF dep[3] = <<>> THEN None ELSE Some(dep[3])
             repo_name == RepoName(dep[1], dep[2])
         IN IF repo_name \in added THEN SpawnBatch(Tail(dps), added, futs)
            ELSE SpawnBatch(Tail(dps), added \cup {repo_name},
                            Append(futs, NewTask(dep[1], dep[2], version)))

\* The manifest's append of a resolved record: legacy pushes, packaging
\* deduplicates with add_dependency.
AppendResolved(e, cfg, dep) ==
    IF e = "legacy" THEN Append(cfg, dep) ELSE AddDependency(cfg, dep)

\* A call of resolve_adding_package begins: it runs to its first await, with
\* the first batch spawned.
StartResolve(cfg, request, remaining) ==
    LET sp == SpawnBatch(<<request>>, {}, <<>>)
    IN /\ config' = cfg /\ root' = request /\ pending' = remaining
       /\ deps' = <<>> /\ packages_added' = sp.added /\ futures' = sp.futures
       /\ nextf' = 1 /\ rounds' = 1
       /\ ret' = [kind |-> "Running", err |-> NoError]

\* Commands::Add writing the manifest whatever resolve_adding_package returned.
Returned_AlwaysSaves(kind, err, cfg, rnds) ==
    /\ ret' = [kind |-> kind, err |-> err]
    /\ config' = cfg /\ deps' = <<>> /\ futures' = <<>> /\ nextf' = 0 /\ rounds' = rnds
    /\ UNCHANGED <<root, packages_added>>
    /\ IF cmd = "add"
       THEN /\ disk' = cfg
            /\ cmd' = "idle" /\ pending' = <<>>
       ELSE /\ disk' = disk
            /\ IF kind = "Ok" THEN cmd' = "check" /\ pending' = Tail(pending)
               ELSE cmd' = "idle" /\ pending' = <<>>

\* resolve_adding_package returns to the command, which ends or goes on.
\* Add: Config::to_disk on Ok, process::exit(1) on Err.
\* handle_check_installs: unwrap, so an Err ends the process.
Returned(kind, err, cfg, rnds) ==
    /\ ret' = [kind |-> kind, err |-> err]
    /\ config' = cfg /\ deps' = <<>> /\ futures' = <<>> /\ nextf' = 0 /\ rounds' = rnds
    /\ UNCHANGED <<root, packages_added>>
    /\ IF cmd = "add"
       THEN /\ disk' = (IF kind = "Ok" THEN cfg ELSE disk)
            /\ cmd' = "idle" /\ pending' = <<>>
       ELSE /\ disk' = disk
            /\ IF kind = "Ok" THEN cmd' = "check" /\ pending' = Tail(pending)
               ELSE cmd' = "idle" /\ pending' = <<>>

\* Commands::Add
CmdAdd(repo) ==
    /\ cmd = "idle" /\ cmds < MaxCmds
    /\ cmd' = "add" /\ cmds' = cmds + 1
    /\ StartResolve(disk, <<O, repo, <<>>>>, <<>>)
    /\ UNCHANGED <<era, disk, cache, local, fetched, purges, collision, px, py, pout, build, gen, race>>

\* Commands::PurgeGlobalInstalls
CmdPurge ==
    /\ cmd = "idle" /\ cmds < MaxCmds
    /\ cmds' = cmds + 1 /\ purges' = purges + 1
    /\ cache' = << >>
    /\ UNCHANGED <<era, disk, config, local, fetched, cmd, deps, packages_added,
                   futures, nextf, rounds, root, ret, pending, collision, px, py, pout, build, gen, race>>

\* handle_check_installs up to its loop: the manifest is cloned and checked.
CmdCheck ==
    /\ cmd = "idle" /\ cmds < MaxCmds /\ era = "packaging"
    /\ cmd' = "check" /\ cmds' = cmds + 1
    /\ config' = disk /\ pending' = CheckPkgs(disk, cache)
    /\ deps' = <<>> /\ futures' = <<>> /\ nextf' = 0 /\ rounds' = 0
    /\ ret' = [kind |-> "None", err |-> NoError]
    /\ UNCHANGED <<era, disk, cache, local, fetched, purges, packages_added, root,
                   collision, px, py, pout, build, gen, race>>

\* handle_check_installs' loop: the next triple is resolved, or the loop ends.
CheckNext ==
    /\ cmd = "check" /\ futures = <<>>
    /\ IF pending = <<>>
       THEN /\ cmd' = "idle"
            /\ UNCHANGED <<config, deps, packages_added, futures, nextf, rounds, root,
                           ret, pending>>
       ELSE /\ StartResolve(config, Head(pending), pending)
            /\ UNCHANGED cmd
    /\ UNCHANGED <<era, disk, cache, local, fetched, purges, cmds, collision,
                   px, py, pout, build, gen, race>>

\* ------------------------------------------------- the add_package tasks
\* Task i ends with an error; the stores are as they were.
\* got_tags: find_tags returned the tag list; install: how far
\* install_globally got ("NotCalled", "Existed", "Fetching", "Failed", "Unpacked").
FailTask(i, err, got_tags, install) ==
    /\ futures' = [futures EXCEPT ![i].pc = "done", ![i].got_tags = got_tags,
                                  ![i].install = install,
                                  ![i].res = [kind |-> "Err", err |-> err,
                                              chain |-> <<>>, dep |-> NoDep]]
    /\ UNCHANGED <<era, disk, config, cache, local, fetched, purges, cmd, cmds, deps,
                   packages_added, nextf, rounds, root, ret, pending, collision,
                   px, py, pout, build, gen, race>>

\* Task i has run add_package to its end with outcome o (or ended the process).
Complete(i, tag, install, o) ==
    /\ cache' = o.cache /\ local' = o.local
    /\ collision' = (IF o.cat # "" THEN [cat |-> o.cat, before |-> o.before] ELSE collision)
    /\ IF o.kind = "Exit"
       THEN /\ cmd' = "idle" /\ futures' = <<>> /\ nextf' = 0 /\ deps' = <<>>
            /\ pending' = <<>> /\ ret' = [kind |-> "Exit", err |-> NoError]
       ELSE /\ futures' = [futures EXCEPT ![i].pc = "done", ![i].tag = tag,
                                          ![i].got_tags = TRUE, ![i].install = install,
                                          ![i].res = [kind |-> o.kind, err |-> o.err,
                                                      chain |-> o.chain, dep |-> o.dep]]
            /\ UNCHANGED <<cmd, nextf, deps, pending, ret>>
    /\ UNCHANGED <<era, disk, config, purges, cmds, packages_added, rounds, root,
                   px, py, pout, build, gen, race>>

\* What the operator types and the order read_dir yields (legacy only).
Lines(e) == IF e = "legacy" THEN PromptLines ELSE {<<>>}
Orders(e, owner, repo, tag) ==
    IF e = "legacy" THEN Perms(ArchiveFiles(owner, repo, tag)) ELSE {<<>>}

CountFetch(f, path) ==
    IF path \in DOMAIN f THEN [f EXCEPT ![path] = @ + 1] ELSE (path :> 1) @@ f

\* add_package from the answer of find_tags to its next await: the tag is
\* chosen and install_globally either returns at once (the path exists) or
\* creates the directory and requests the archive.
TaskFindTags(i) ==
    /\ cmd # "idle" /\ i \in 1..Len(futures) /\ futures[i].pc = "find_tags"
    /\ LET t == futures[i]
           tags == RemoteTags(t.owner, t.repo)
           sel == SelectTag(era, tags, t.version)
           path == GlobalPath(era, t.owner, t.repo, sel.tag)
       IN \/ \E kind \in {"Reqwest", "Unknown"} :
                FailTask(i, Error(kind, <<>>), FALSE, "NotCalled")
          \/ /\ tags = <<>>
             /\ FailTask(i, NoVersions(t.owner, t.repo), TRUE, "NotCalled")
          \/ /\ tags # <<>> /\ ~sel.ok
             /\ FailTask(i, VersionMissing(era, t.owner, t.repo, t.version[1]),
                         TRUE, "NotCalled")
          \/ /\ tags # <<>> /\ sel.ok /\ PathExists(cache, path)
             /\ \E line1 \in Lines(era), line2 \in Lines(era),
                   order \in Orders(era, t.owner, t.repo, sel.tag) :
                   Complete(i, sel.tag, "Existed",
                            AfterInstall(era, cache, local, t.owner, t.repo,
                                         sel.tag, line1, line2, order))
             /\ UNCHANGED fetched
          \/ /\ tags # <<>> /\ sel.ok /\ ~PathExists(cache, path)
             /\ cache' = (path :> [state |-> "partial", owner |-> t.owner, repo |-> t.repo,
                                   tag |-> sel.tag, pkgfile |-> None]) @@ cache
             /\ fetched' = CountFetch(fetched, path)
             /\ futures' = [futures EXCEPT ![i].pc = "download", ![i].tag = sel.tag,
                                           ![i].got_tags = TRUE, ![i].install = "Fetching"]
             /\ UNCHANGED <<era, disk, config, local, purges, cmd, cmds, deps,
                            packages_added, nextf, rounds, root, ret, pending, collision,
                            px, py, pout, build, gen, race>>

\* install_globally from the answer of the archive request on, then the rest
\* of add_package: the archive is unpacked into the package directory.
TaskDownload(i) ==
    /\ cmd # "idle" /\ i \in 1..Len(futures) /\ futures[i].pc = "download"
    /\ LET t == futures[i]
           path == GlobalPath(era, t.owner, t.repo, t.tag)
           unpacked == [cache EXCEPT ![path].state = "complete"]
       IN \/ \E kind \in {"Reqwest", "Unknown", "Io"} :
                FailTask(i, Error(kind, <<>>), TRUE, "Failed")
          \/ /\ \E line1 \in Lines(era), line2 \in Lines(era),
                   order \in Orders(era, t.owner, t.repo, t.tag) :
                   Complete(i, t.tag, "Unpacked",
                            AfterInstall(era, unpacked, local, t.owner, t.repo,
                                         t.tag, line1, line2, order))
             /\ UNCHANGED fetched

\* The loop `for f in futures` ending after its first future.
BatchAwaited_Early(n, futs) == n >= 1

\* The loop `for f in futures` has awaited future n and no future is left.
BatchAwaited(n, futs) == n = Len(futs)

\* The resolver's `f.await??` on the next future of the batch, and, after the
\* last one, the next iteration of its while loop.
Await ==
    /\ cmd # "idle" /\ nextf \in 1..Len(futures) /\ futures[nextf].pc = "done"
    /\ LET r == futures[nextf].res
           cfg == AppendResolved(era, config, r.dep)
           frontier == deps \o r.chain
           sp == SpawnBatch(frontier, packages_added, <<>>)
       IN \/ /\ r.kind = "Err"
             /\ Returned("Err", r.err, config, rounds)
          \/ /\ r.kind = "Panic"
             /\ Returned("Err", Error("Tokio", <<>>), config, rounds)
          \/ /\ r.kind = "Ok" /\ nextf < Len(futures)
             /\ config' = cfg /\ deps' = frontier /\ nextf' = nextf + 1
             /\ UNCHANGED <<disk, cmd, packages_added, futures, rounds, root, ret, pending>>
          \/ /\ r.kind = "Ok" /\ BatchAwaited(nextf, futures) /\ frontier = <<>>
             /\ Returned("Ok", NoError, cfg, rounds)
          \/ /\ r.kind = "Ok" /\ BatchAwaited(nextf, futures) /\ frontier # <<>>
             /\ sp.futures = <<>>
             /\ Returned("Ok", NoError, cfg, rounds + 1)
          \/ /\ r.kind = "Ok" /\ BatchAwaited(nextf, futures) /\ frontier # <<>>
             /\ sp.futures # <<>>
             /\ config' = cfg /\ deps' = <<>> /\ packages_added' = sp.added
             /\ futures' = sp.futures /\ nextf' = 1 /\ rounds' = rounds + 1
             /\ UNCHANGED <<disk, cmd, root, ret, pending>>
    /\ UNCHANGED <<era, cache, local, fetched, purges, cmds, collision, px, py, pout, build, gen, race>>

Next ==
    \/ \E repo \in RepoNames : CmdAdd(repo)
    \/ CmdPurge
    \/ CmdCheck
    \/ CheckNext
    \/ \E i \in 1..Len(futures) : TaskFindTags(i)
    \/ \E i \in 1..Len(futures) : TaskDownload(i)
    \/ Await

Spec == Init /\ [][Next]_vars

\* ------------------------------------------- one call of the resolver alone
\* resolve_adding_package called once, on an empty manifest and cache, with any
\* repository and any version its signature allows.
RequestVersions == {None, Some(V1), Some(V2), Some(V10)}

\* The repositories a single call is asked for: those of Add and one whose
\* manifest names a source directory and two dependencies.
CallRepos == RepoNames \cup {<<"g">>}

InitCall ==
    /\ era \in Eras
    /\ disk = <<>> /\ cache = << >> /\ local = [cat \in CategorySet |-> << >>]
    /\ fetched = << >> /\ purges = 0 /\ cmd = "add" /\ cmds = 1
    /\ collision = [cat |-> "", before |-> local]
    /\ NoPath /\ build = NoBuild /\ gen = NoGen /\ race = NoRace
    /\ \E repo \in CallRepos, version \in RequestVersions :
          LET sp == SpawnBatch(<< <<O, repo, IF version = None THEN <<>> ELSE version[1]>> >>,
                               {}, <<>>)
          IN /\ config = <<>> /\ root = <<O, repo, version>> /\ pending = <<>>
             /\ deps = <<>> /\ packages_added = sp.added /\ futures = sp.futures
             /\ nextf = 1 /\ rounds = 1
             /\ ret = [kind |-> "Running", err |-> NoError]

NextCall ==
    \/ \E i \in 1..Len(futures) : TaskFindTags(i)
    \/ \E i \in 1..Len(futures) : TaskDownload(i)
    \/ Await

SpecCall == InitCall /\ [][NextCall]_vars

\* ----------------------------------------------------------- get_global_path
\* The path function alone, on two (owner, repository, version) triples.
\* GitHub owners hold letters, digits and "-"; repository names may hold "_";
\* tag names may hold "_" and "/", but no empty "/"-separated piece.
StrOver(alphabet, n) == UNION {[1..k -> alphabet] : k \in 1..n}

ValidTag(v) == \A i \in 1..Len(SplitOn(v, "/")) : SplitOn(v, "/")[i] # <<>>

PathOwners == {<<"o">>, <<"a">>}
PathRepos == StrOver({"a", "_"}, MaxStrLen)
PathVersions == {v \in StrOver({"a", "_", "/"}, MaxStrLen) : ValidTag(v)}
PathTriples == PathOwners \X PathRepos \X PathVersions

InitPath ==
    /\ InitStores /\ px \in PathTriples /\ py \in PathTriples /\ pout = <<>>
    /\ build = NoBuild /\ gen = NoGen /\ race = NoRace

\* get_global_path is called on each of the two triples.
GetGlobalPaths ==
    /\ pout = <<>>
    /\ pout' = <<GlobalPath(era, px[1], px[2], px[3]), GlobalPath(era, py[1], py[2], py[3])>>
    /\ UNCHANGED <<era, disk, config, cache, local, fetched, purges, cmd, cmds, deps,
                   packages_added, futures, nextf, rounds, root, ret, pending, collision,
                   px, py, build, gen, race>>

NextPath == GetGlobalPaths

SpecPath == InitPath /\ [][NextPath]_vars

\* ------------------------------------- install_globally in several processes
\* Every process runs install_globally(package, tag) for the same package; the
\* processes interleave at their system calls and awaits.
RaceOthers == <<era, disk, config, cache, local, fetched, purges, cmd, cmds, deps,
                packages_added, futures, nextf, rounds, root, ret, pending, collision,
                px, py, pout, build, gen>>

InitRace ==
    /\ InitStores /\ era = "packaging" /\ NoPath /\ build = NoBuild /\ gen = NoGen
    /\ \E dir \in {"absent", "partial", "complete"} :
          race = [dir |-> dir, requests |-> 0, proc |-> [p \in Procs |-> NewProc]]

\* package_dir.exists() answering yes whatever the directory.
RaceDirExists_Always(dir) == TRUE

\* package_dir.exists()
RaceDirExists(dir) == dir # "absent"

\* `if package_dir.exists() { return Ok(()) }`
RaceExists(p) ==
    /\ race.proc[p].pc = "start"
    /\ race' = IF RaceDirExists(race.dir)
               THEN [race EXCEPT !.proc[p] = [@ EXCEPT !.pc = "done", !.ret = "Ok",
                                                       !.saw = "existed"]]
               ELSE [race EXCEPT !.proc[p] = [@ EXCEPT !.pc = "create", !.saw = "missing"]]
    /\ UNCHANGED RaceOthers

\* fs::create_dir_all(&package_dir)?, which succeeds on a directory that
\* exists, then the archive request is sent and spawned.
RaceCreateDir(p) ==
    /\ race.proc[p].pc = "create"
    /\ \/ race' = [race EXCEPT !.proc[p] = [@ EXCEPT !.pc = "done", !.ret = "Err",
                                                     !.err = "Io"]]
       \/ race' = [race EXCEPT !.dir = IF @ = "absent" THEN "partial" ELSE @,
                               !.requests = @ + 1,
                               !.proc[p] = [@ EXCEPT !.pc = "download", !.sent = TRUE]]
    /\ UNCHANGED RaceOthers

\* From `res.await??` on: the request fails, the status is no success, the
\* archive cannot be written or unpacked, or it is unpacked into package_dir.
RaceDownload(p) ==
    /\ race.proc[p].pc = "download"
    /\ \/ \E kind \in {"Reqwest", "Unknown", "Io"} :
             race' = [race EXCEPT !.proc[p] = [@ EXCEPT !.pc = "done", !.ret = "Err",
                                                        !.err = kind]]
       \/ race' = [race EXCEPT !.dir = "complete",
                               !.proc[p] = [@ EXCEPT !.pc = "done", !.ret = "Ok",
                                                     !.saw = "unpacked"]]
    /\ UNCHANGED RaceOthers

NextRace ==
    \/ \E p \in Procs : RaceExists(p)
    \/ \E p \in Procs : RaceCreateDir(p)
    \/ \E p \in Procs : RaceDownload(p)

SpecRace == InitRace /\ [][NextRace]_vars

\* -------------------------------------------------- generate_package_file alone
\* generate_package_file called up to MaxCalls times on an installed package
\* of the legacy cache, beside another package.
MaxCalls == 2

\* The unpacked archives a cache directory may hold.
GenPackages ==
    {pkg \in CallRepos \X {V1, V2, V10} : pkg[2] \in SeqToSet(RemoteTags(O, pkg[1]))}

\* The metadata a package directory may hold before the call.
GenPkgFiles ==
    {None, Some(NewPackageConfig(<<"include">>, <<"src">>)),
     Some(NewPackageConfig(<<"inc">>, <<"code">>))}

CacheEntry(pkg, pkgfile) ==
    [state |-> "complete", owner |-> O, repo |-> pkg[1], tag |-> pkg[2], pkgfile |-> pkgfile]

InitGen ==
    /\ InitStores /\ era = "legacy" /\ NoPath /\ build = NoBuild /\ race = NoRace
    /\ \E pkg \in GenPackages, other \in GenPackages, pkgfile \in GenPkgFiles :
          /\ other[1] # pkg[1]
          /\ gen = [path |-> PackageGlobalPath(O, pkg[1], pkg[2]),
                    cache |-> (PackageGlobalPath(O, pkg[1], pkg[2]) :> CacheEntry(pkg, pkgfile))
                              @@ (PackageGlobalPath(O, other[1], other[2]) :> CacheEntry(other, None)),
                    calls |-> <<>>, lines |-> <<>>]

\* generate_package_file(package)
GenCall ==
    /\ Len(gen.calls) < MaxCalls
    /\ gen' = [gen EXCEPT !.cache = GeneratePackageFile(gen.cache, gen.path).cache,
                          !.calls = Append(@, GeneratePackageFile(gen.cache, gen.path).res)]
    /\ UNCHANGED <<era, disk, config, cache, local, fetched, purges, cmd, cmds, deps,
                   packages_added, futures, nextf, rounds, root, ret, pending, collision,
                   px, py, pout, build, race>>

NextGen == GenCall

SpecGen == InitGen /\ [][NextGen]_vars

\* ------------------------------------------ add_package's prompts, alone
\* add_package of the legacy generation on an unpacked package without
\* manifest and without include/ and src/ (repository e), with the two lines
\* the operator types; gen.lines holds them.
MaxLineLen == 2

PromptInputs == {<<>>} \cup StrOver({"lib", " ", "/"}, MaxLineLen)

InitPrompt ==
    /\ InitStores /\ era = "legacy" /\ NoPath /\ build = NoBuild /\ race = NoRace
    /\ \E line1 \in PromptInputs, line2 \in PromptInputs :
          gen = [path |-> PackageGlobalPath(O, <<"e">>, V1),
                 cache |-> (PackageGlobalPath(O, <<"e">>, V1) :> CacheEntry(<<<<"e">>, V1>>, None)),
                 calls |-> <<>>, lines |-> <<line1, line2>>]

\* add_package from the return of install_globally to its end.
AddPackagePrompted ==
    /\ gen.calls = <<>>
    /\ \E order \in Perms(ArchiveFiles(O, <<"e">>, V1)) :
          \E o \in {LegacyAfterInstall(gen.cache, local, O, <<"e">>, V1,
                                        gen.lines[1], gen.lines[2], order)} :
             /\ gen' = [gen EXCEPT !.cache = o.cache, !.calls = <<o.kind>>]
             /\ local' = o.local
    /\ UNCHANGED <<era, disk, config, cache, fetched, purges, cmd, cmds, deps,
                   packages_added, futures, nextf, rounds, root, ret, pending, collision,
                   px, py, pout, build, race>>

NextPrompt == AddPackagePrompted

SpecPrompt == InitPrompt /\ [][NextPrompt]_vars

\* ------------------------------------------------------------ the Build command
Others == <<era, disk, config, cache, local, fetched, purges, cmd, cmds, deps,
            packages_added, futures, nextf, rounds, root, ret, pending, collision,
            px, py, pout, gen, race>>

InitBuild ==
    /\ InitStores /\ era = "packaging" /\ NoPath /\ gen = NoGen /\ race = NoRace
    /\ \E build_type \in ManifestBuildTypes, dependency \in ManifestDependencies,
          lines \in MainLines, profile \in Profiles :
          build = NewBuild(ConfigFrom(build_type, dependency), lines, profile)

\* build/<profile>/<name><EXECUTABLE_FE>
OutputFilepath(cfg, profile) ==
    <<"build", "/", ProfileDir(profile), "/">> \o cfg.name \o EXECUTABLE_FE

\* The builder of a project with every declared ingot attached.
FullBuilder(cfg, lines) == AttachIngots(ProjBuilderNew(cfg, ProjectTree(lines)), cfg.dependency)

\* build_compilation_cmd: the words of CompileCmdBuilder for the project and
\* its ingots, and the flags link_sys_lib returns for the project directory.
BuildCompilationCmd(cc, build_type, lines, ords) ==
    GenerateCompileCmd(cc, build_type, ords)
    \o LinkSysLib(ProjectTree(lines)[<<"src">>])

\* The directory handle_build runs the command in.
BuildDir(build_type, profile) ==
    IF build_type = "static_library"
    THEN PathStr(CWD) \o <<"/", "build", "/", ProfileDir(profile), "/", "obj">>
    ELSE PathStr(CWD)

\* main, Commands::Build up to its loop: the repository is valid, the manifest
\* parses, every dependency is installed; the loop takes project.build_type.
CmdBuild ==
    /\ build.pc = "idle"
    /\ build' = [build EXCEPT !.pc = "loop", !.queue = build.cfg.build_type]
    /\ UNCHANGED Others

\* One iteration of the loop: handle_build(profile, config, b_type), whose
\* command ends with status s; on Err main prints it and exits with 1.
HandleBuild(s) ==
    /\ build.pc = "loop" /\ build.queue # <<>>
    /\ \E ords \in SetOrders(FullBuilder(build.cfg, build.lines).compile_cmd) :
       LET b_type == Head(build.queue)
           cc == [FullBuilder(build.cfg, build.lines).compile_cmd EXCEPT
                     !.output_filename = Some(OutputFilepath(build.cfg, build.profile))]
           ran == [build EXCEPT
                     !.cmdline = BuildCompilationCmd(cc, b_type, build.lines, ords),
                     !.cwd = BuildDir(b_type, build.profile),
                     !.status = s,
                     !.ran = Append(@, b_type)]
       IN build' = IF s # 0
                   THEN [ran EXCEPT !.pc = "exit", !.outcome = "Err", !.exit_code = 1,
                            !.err = <<"Compilation command exited with non-zero exit code">>]
                   ELSE [ran EXCEPT !.outcome = "Ok", !.queue = Tail(@)]
    /\ UNCHANGED Others

\* The loop is over: main returns.
BuildEnd ==
    /\ build.pc = "loop" /\ build.queue = <<>>
    /\ build' = [build EXCEPT !.pc = "done"]
    /\ UNCHANGED Others

\* ProjBuilder::new(&config)
NewBuilder ==
    /\ build.pc = "idle"
    /\ build' = [build EXCEPT !.pc = "builder",
                    !.builder = Some(ProjBuilderNew(build.cfg, ProjectTree(build.lines)))]
    /\ UNCHANGED Others

\* builder.attach_ingot(ingot) for a declared ingot, attached before or not.
\* pc is "staged" from the return of build_ingot to the next call on the
\* builder.
Attach(ingot) ==
    /\ build.pc \in {"builder", "staged"}
    /\ ingot \in SeqToSet(build.cfg.dependency)
    /\ build' = [build EXCEPT !.pc = "builder",
                    !.builder = Some(AttachIngot(build.builder[1], ingot))]
    /\ UNCHANGED Others

\* builder.build_exe(profile), whose command ends with status s: a failed
\* command ends the process with exit code 1.
BuildExe(s) ==
    /\ build.pc = "builder"
    /\ \E ords \in SetOrders(build.builder[1].compile_cmd) :
       LET cc == [build.builder[1].compile_cmd EXCEPT
                     !.output_filename = Some(OutputFilepath(build.cfg, build.profile))]
           ran == [build EXCEPT
                     !.builder = Some([build.builder[1] EXCEPT !.compile_cmd = cc]),
                     !.cmdline = GenerateCompileCmd(cc, "exe", ords),
                     !.cwd = PathStr(CWD),
                     !.status = s,
                     !.ran = Append(@, "exe")]
       IN build' = IF s # 0
                   THEN [ran EXCEPT !.pc = "exit", !.outcome = "Exit", !.exit_code = 1]
                   ELSE [ran EXCEPT !.pc = "done", !.outcome = "Ok"]
    /\ UNCHANGED Others

NextBuild ==
    \/ CmdBuild
    \/ \E s \in 0..MaxStatus : HandleBuild(s)
    \/ BuildEnd
    \/ NewBuilder
    \/ \E ingot \in KnownIngots : Attach(ingot)
    \/ \E s \in 0..MaxStatus : BuildExe(s)

SpecBuild == InitBuild /\ [][NextBuild]_vars

\* ------------------------------------------------------ ProjBuilder::build_ingot
\* build.staging is build/ingot: None when the directory does not exist, else
\* Some(the map from file name to the path its bytes were copied from);
\* build.prior is what build/ingot was when the last build_ingot was entered.
PACKAGE_CONFIG_FILE == <<"ingot", ".toml">>

\* A file left in build/ingot by an earlier run.
StaleStaging == (<<"old", ".c">> :> <<"src", "/", "old", ".c">>)

\* <global path>/build/ingot of an ingot.
IngotDir(ingot) == PathStr(DependencyGlobalPath(ingot)) \o <<"/", "build", "/", "ingot">>

\* fs::read_dir(include_dir): the regular files of a directory of the project
\* or of an ingot directory, which holds ingot.toml as well.
ReadIncludeDir(lines, dir) ==
    IF dir \in DOMAIN ProjectTree(lines) THEN ProjectTree(lines)[dir]
    ELSE UNION {IngotFiles(i) \cup {SrcFile(PACKAGE_CONFIG_FILE)} :
                   i \in {k \in KnownIngots : IngotDir(k) = dir}}

\* fs::remove_dir_all(&ingot_dir) left out.
ClearStaging_Keeps(staging) == IF staging = None THEN << >> ELSE staging[1]

\* fs::remove_dir_all(&ingot_dir) when it exists, then fs::create_dir_all.
ClearStaging(staging) == << >>

\* fs::copy of every path of a set into a directory under the path's file
\* name: of the paths with one name the copy made last stays, and pick says
\* which that is.
CopyInto(dir, paths, pick) ==
    [n \in DOMAIN dir \cup {Basename(q) : q \in paths} |->
        IF n \in {Basename(q) : q \in paths} THEN pick[n] ELSE dir[n]]

\* The choices of the copy that stays, one path per file name.
RECURSIVE PicksOver(_, _)
PicksOver(names, paths) ==
    IF names = {} THEN {<< >>}
    ELSE LET n == CHOOSE x \in names : TRUE
         IN {(n :> q) @@ pick : q \in {r \in paths : Basename(r) = n},
                                pick \in PicksOver(names \ {n}, paths)}

Picks(paths) == PicksOver({Basename(q) : q \in paths}, paths)

\* The files the third loop copies: every file of every include directory.
HeaderPaths(cc, lines) ==
    UNION {{d \o <<"/">> \o f.name : f \in ReadIncludeDir(lines, d)} : d \in cc.include_dirs}

\* The metadata build_ingot writes.
IngotMetadataNew(cfg) ==
    [ingot_deps |-> cfg.dependency, sys_libs |-> <<>>,
     staticlib_support |-> FALSE, source_support |-> TRUE]

\* build_ingot's staging directory after its three loops and the write of
\* ingot.toml (whose content is the metadata, here its own path).
StageIngot(staging, cc, lines, picks) ==
    CopyInto(CopyInto(CopyInto(CopyInto(ClearStaging(staging),
                                        cc.source_files, picks.sources),
                               cc.static_libs, picks.statics),
                      HeaderPaths(cc, lines), picks.headers),
             {<<"build", "/", "ingot", "/">> \o PACKAGE_CONFIG_FILE},
             (PACKAGE_CONFIG_FILE :> <<"build", "/", "ingot", "/">> \o PACKAGE_CONFIG_FILE))

MaxIngots == 2

\* The dependency lists of the manifest of a project built as an ingot: no
\* ingot is listed twice.
IngotDependencies ==
    {<<>>} \cup {q \in StrOver(KnownIngots, MaxIngots) :
                    \A i, j \in 1..Len(q) : q[i] = q[j] => i = j}

InitIngot ==
    /\ InitStores /\ era = "packaging" /\ NoPath /\ gen = NoGen /\ race = NoRace
    /\ \E dependency \in IngotDependencies, staging \in {None, Some(StaleStaging)} :
          build = [NewBuild(ConfigFrom(<<"ingot">>, dependency), <<>>, "--release")
                      EXCEPT !.staging = staging]

\* builder.build_ingot()
BuildIngot ==
    /\ build.pc \in {"builder", "staged"}
    /\ LET cc == build.builder[1].compile_cmd
       IN \E sources \in Picks(cc.source_files), statics \in Picks(cc.static_libs),
             headers \in Picks(HeaderPaths(cc, build.lines)) :
             build' = [build EXCEPT
                          !.staging = Some(StageIngot(build.staging, cc, build.lines,
                                              [sources |-> sources, statics |-> statics,
                                               headers |-> headers])),
                          !.prior = build.staging,
                          !.ingot_md = Some(IngotMetadataNew(build.cfg)),
                          !.pc = "staged",
                          !.outcome = "Ok",
                          !.ran = <<"ingot">>]
    /\ UNCHANGED Others

NextIngot ==
    \/ NewBuilder
    \/ \E ingot \in KnownIngots : Attach(ingot)
    \/ BuildIngot

SpecIngot == InitIngot /\ [][NextIngot]_vars

\* ------------------------------------------------------------------ claims
\* Records of owner/repo in a dependency list.
Count(list, owner, repo) ==
    Cardinality({i \in 1..Len(list) : DepOwner(list[i]) = owner /\ DepRepoName(list[i]) = repo})

RootA == <<O, <<"a">>, <<>>>>

\* C1: resolve_adding_package with root a, whose manifest declares b while b's
\* declares a, returns Ok after boundedly many frontier rounds with a exactly
\* once and b exactly once in the dependency list.
C1_CycleResolvedOnce ==
    (ret.kind = "Ok" /\ root = RootA) =>
        /\ rounds <= Cardinality(RepoNames) + 1
        /\ Count(config, O, <<"a">>) = 1
        /\ Count(config, O, <<"b">>) = 1

\* The same under the packaging generation only.
\* No two records of a dependency list name the same (owner, repository).
NoDuplicates(list) ==
    \A i, j \in 1..Len(list) : WeakEq(list[i], list[j]) => i = j

\* C2: the dependency list holds at most one record per (owner, repository),
\* in memory and on disk, and while a command runs the records already in the
\* list stay as they are (the first resolved record is the one kept).
C2_OneRecordPerRepo == NoDuplicates(config) /\ NoDuplicates(disk)

\* The cache path of a record of the dependency list.
RecordPath(e, dep) ==
    IF e = "legacy" THEN PackageGlobalPath(DepOwner(dep), DepRepoName(dep), dep.version)
    ELSE DependencyGlobalPath(dep)

\* The (owner, repository, version) triples a cached Kiln.toml declares.
DeclaredTriples(cfg) ==
    IF cfg = None \/ cfg[1].dependency = None THEN <<>>
    ELSE [i \in 1..Len(cfg[1].dependency[1]) |->
            <<DepOwner(cfg[1].dependency[1][i]), DepRepoName(cfg[1].dependency[1][i]),
              cfg[1].dependency[1][i].version>>]

\* C3: the frontier entries add_package returns are the dependencies declared
\* by the resolved package's own cached manifest, and after an Ok return every
\* dependency declared by the cached manifest of a listed package is listed.
C3_FrontierIsDeclared ==
    /\ \A i \in 1..Len(futures) :
          (futures[i].pc = "done" /\ futures[i].res.kind = "Ok") =>
              futures[i].res.chain =
                  DeclaredTriples(ConfigAt(cache, GlobalPath(era, futures[i].owner,
                                                             futures[i].repo, futures[i].tag)))
    /\ ret.kind = "Ok" =>
          \A i \in 1..Len(config) :
              LET decl == DeclaredTriples(ConfigAt(cache, RecordPath(era, config[i])))
              IN \A k \in 1..Len(decl) : Count(config, decl[k][1], decl[k][2]) >= 1

\* C4: when copy_deps_global_to_local has hit a name that exists in
\* dependencies/<category>/ and remove_deps_local has run (the process then
\* exits), dependencies/<category>/ holds what it held before the call.
C4_CollisionRollback ==
    ret.kind = "Exit" => local[collision.cat] = collision.before[collision.cat]

\* The cache path of the package a task installs, once its tag is chosen.
TaskPath(t) == GlobalPath(era, t.owner, t.repo, t.tag)

\* A step of task i that is a call of install_globally on path p.
InstallCalled(i, p) ==
    /\ i \in 1..Len(futures) /\ futures[i].pc = "find_tags"
    /\ purges' = purges
    /\ \/ /\ i \in 1..Len(futures') /\ futures'[i].install # "NotCalled"
          /\ TaskPath(futures'[i]) = p
       \/ /\ ret'.kind = "Exit" /\ futures' = <<>>
          /\ \E v \in {RemoteTags(futures[i].owner, futures[i].repo)[k] :
                         k \in 1..Len(RemoteTags(futures[i].owner, futures[i].repo))} :
                GlobalPath(era, futures[i].owner, futures[i].repo, v) = p

\* C5: install_globally on a package whose archive is unpacked in the cache
\* requests no download, returns Ok and leaves the cache directory as it is;
\* between two purges of the cache an archive is requested at most once.
C5_InstallIdempotent ==
    /\ [](\A p \in DOMAIN fetched : fetched[p] <= purges + 1)
    /\ [][\A p \in DOMAIN cache :
            (cache[p].state = "complete" /\ purges' = purges) =>
                /\ p \in DOMAIN cache' /\ cache'[p] = cache[p]
                /\ fetched'[p] = fetched[p]
                /\ \A i \in 1..Len(futures) :
                      (InstallCalled(i, p) /\ futures' # <<>>) =>
                          futures'[i].install = "Existed"]_vars

\* A second install of an unpacked package has returned at once.
C5_Witness ==
    \E i \in 1..Len(futures) :
        /\ futures[i].install = "Existed"
        /\ TaskPath(futures[i]) \in DOMAIN cache
        /\ cache[TaskPath(futures[i])].state = "complete"
        /\ fetched[TaskPath(futures[i])] = 1

\* C6: get_global_path yields the same path exactly for the same triple.
C6_PathInjective ==
    pout # <<>> => ((pout[1] = pout[2]) <=> (px = py))

\* Some task of the current batch has failed.
TaskFailed == \E i \in 1..Len(futures) : futures[i].res.kind \in {"Err", "Panic"}

\* The resolver's await reaches a failed task (a step of the resolver moves
\* nextf; a task that ends the process is no step of the resolver).
AwaitsFailure ==
    /\ nextf \in 1..Len(futures) /\ futures[nextf].pc = "done"
    /\ futures[nextf].res.kind = "Err"
    /\ nextf' # nextf /\ ret'.kind # "Exit"

\* C7: once an add_package task has failed, no further frontier is processed,
\* the call does not return Ok and the manifest file is not written; when the
\* resolver awaits the failed task the call returns that task's error and the
\* command ends.
C7_FailFast ==
    [][TaskFailed =>
          /\ rounds' = rounds /\ disk' = disk /\ ret'.kind # "Ok"
          /\ AwaitsFailure =>
                /\ ret' = [kind |-> "Err", err |-> futures[nextf].res.err]
                /\ futures' = <<>> /\ cmd' = "idle"]_vars

\* An Add has failed in a later frontier, with records resolved before the
\* failure in memory and none of them on disk.
C7_Witness ==
    /\ ret.kind = "Err" /\ cmd = "idle" /\ root # <<>> /\ root[3] = <<>>
    /\ rounds >= 2 /\ config # disk

\* Tag name t is maximal among tags in String order.
IsMaxTag(t, tags) == \A k \in 1..Len(tags) : ~StrLess(t, tags[k])

\* C8: a task started with no version installs the tag whose name is the
\* lexicographically maximal one of the repository's tag list.
C8_MaxTagSelected ==
    \A i \in 1..Len(futures) :
        (futures[i].version = None /\ futures[i].tag # <<>>) =>
            IsMaxTag(futures[i].tag, RemoteTags(futures[i].owner, futures[i].repo))

\* s holds t as a contiguous piece.
Contains(s, t) == \E k \in 0..(Len(s) - Len(t)) : SubSeq(s, k + 1, k + Len(t)) = t

\* Task t asks for a version that is no tag of its repository.
AsksMissingVersion(t) ==
    /\ t.version # None
    /\ \A k \in 1..Len(RemoteTags(t.owner, t.repo)) :
          RemoteTags(t.owner, t.repo)[k] # t.version[1]

\* C9: a task whose version is no tag of the repository ends, once the tag
\* list has arrived, with a user error naming the repository and without a
\* call of install_globally; that step changes neither the cache nor the
\* manifest (in memory or on disk) and requests no download.
C9_MissingVersionRejected ==
    /\ [](\A i \in 1..Len(futures) :
            (AsksMissingVersion(futures[i]) /\ futures[i].got_tags) =>
                /\ futures[i].pc = "done" /\ futures[i].res.kind = "Err"
                /\ futures[i].res.err.kind = "UsrErr"
                /\ Contains(futures[i].res.err.msg,
                            futures[i].owner \o <<"/">> \o futures[i].repo)
                /\ futures[i].install = "NotCalled")
    /\ [][\A i \in 1..Len(futures) :
            (AsksMissingVersion(futures[i]) /\ futures[i].pc = "find_tags"
             /\ i \in 1..Len(futures') /\ futures'[i].pc = "done") =>
                /\ cache' = cache /\ fetched' = fetched
                /\ config' = config /\ disk' = disk /\ local' = local]_vars

\* A task has been refused for a version that is none of the tags listed.
C9_Witness ==
    \E i \in 1..Len(futures) :
        /\ AsksMissingVersion(futures[i]) /\ futures[i].got_tags
        /\ RemoteTags(futures[i].owner, futures[i].repo) # <<>>
        /\ futures[i].res.err.kind = "UsrErr"

\* The (owner, repository, version) triple of a record of the manifest.
Triple(dep) == <<DepOwner(dep), DepRepoName(dep), dep.version>>

\* C10: what check_pkgs returns (it always returns) holds the triple of every
\* record of the manifest whose cache path does not exist, holds no triple
\* whose cache path exists, and holds no triple twice.
C10_CheckPkgsExact ==
    (cmd = "check" /\ ret.kind = "None") =>
        /\ \A i \in 1..Len(disk) :
              ~PathExists(cache, DependencyGlobalPath(disk[i])) =>
                  \E k \in 1..Len(pending) : pending[k] = Triple(disk[i])
        /\ \A k \in 1..Len(pending) :
              ~PathExists(cache, GlobalPath("packaging", pending[k][1], pending[k][2],
                                            pending[k][3]))
        /\ \A k, m \in 1..Len(pending) : pending[k] = pending[m] => k = m

\* The source files of the command builder the last command was made from.
CmdSources ==
    IF build.ran = <<>> THEN {}
    ELSE IF build.builder # None THEN build.builder[1].compile_cmd.source_files
    ELSE FullBuilder(build.cfg, build.lines).compile_cmd.source_files

\* C11: no compile command is produced that holds two contributing source
\* files with the same base filename (such a build ends in a fatal error).
C11_NoBasenameCollision ==
    \A f, g \in CmdSources :
        (Basename(f) = Basename(g) /\ Quoted(f) \in SeqToSet(build.cmdline)
                                   /\ Quoted(g) \in SeqToSet(build.cmdline)) => f = g

\* The flags of link_sys_lib's table among the words of the last command.
TableFlags ==
    {c_lib_mappings[i][2] : i \in {k \in 1..Len(c_lib_mappings) :
        c_lib_mappings[k][2] \in SeqToSet(build.cmdline)
        \/ Quoted(c_lib_mappings[k][2]) \in SeqToSet(build.cmdline)}}

\* The flags of the table whose header the project's sources include.
IncludedFlags ==
    {c_lib_mappings[i][2] : i \in {k \in 1..Len(c_lib_mappings) :
        c_lib_mappings[k][1] \in ExtractIncludeStatements(ProjectTree(build.lines)[<<"src">>])}}

\* C12: the command of a build of a project without ingots holds exactly the
\* flags of the table whose header the project includes: for <pthread.h>
\* alone, -pthread and no other.
C12_SysLibsInferred ==
    (build.ran # <<>> /\ build.cfg.dependency = <<>>) => TableFlags = IncludedFlags

\* The last command compiled a static library with the release profile.
StaticRelease ==
    /\ build.ran # <<>> /\ build.ran[Len(build.ran)] = "static_library"
    /\ build.profile = "--release"

\* C13: a release build of a static library compiles with -c and is followed
\* by `ar rcs build/release/<name>.a build/release/obj/*.o`, run in
\* build/release/obj.
C13_StaticLibraryShape ==
    StaticRelease =>
        /\ <<"-c">> \in SeqToSet(build.cmdline)
        /\ <<"ar">> \in SeqToSet(build.cmdline)
        /\ build.cwd = PathStr(CWD) \o <<"/", "build", "/", "release", "/", "obj">>

\* C14: the Build command never runs a build for a manifest that declares
\* exe together with another build type.
C14_ExeIsAlone ==
    ("exe" \in SeqToSet(build.cfg.build_type) /\ Len(build.cfg.build_type) > 1)
        => build.ran = <<>>

\* C15: a build whose compile command ended with a non-zero status s never
\* reports success, and its failure carries s.
C15_StatusPropagated ==
    (build.ran # <<>> /\ build.status # 0)
        => (build.outcome # "Ok" /\ build.exit_code = build.status)

\* A step spawns an add_package task: futures holds a task at its start that
\* it did not hold before.
Spawned ==
    \E i \in 1..Len(futures') :
        /\ futures'[i].pc = "find_tags" /\ ~futures'[i].got_tags
        /\ (i > Len(futures) \/ futures[i] # futures'[i])

\* C16: the resolver spawns tasks only when every task of the batch before
\* has been awaited to completion.
C16_LevelSynchronous ==
    [][Spawned => /\ nextf = Len(futures)
                  /\ \A i \in 1..Len(futures) :
                        futures[i].pc = "done" /\ futures[i].res.kind = "Ok"]_vars

\* A third level was spawned, after a level of two tasks, and is in flight.
C16_Witness ==
    /\ rounds = 3 /\ Cardinality(packages_added) >= 4
    /\ \E i \in 1..Len(futures) : futures[i].pc # "done"

\* The repository identity of task i of the batch.
TaskRepo(futs, i) == RepoName(futs[i].owner, futs[i].repo)

\* C17: within one call of resolve_adding_package at most one add_package task
\* is spawned per repository (owner, repository): the tasks of a batch are of
\* distinct repositories, all recorded in packages_added, which only grows
\* during the call, and a task is only spawned for a repository not recorded.
C17_OneTaskPerRepo ==
    /\ [](\A i, j \in 1..Len(futures) :
            /\ TaskRepo(futures, i) \in packages_added
            /\ (TaskRepo(futures, i) = TaskRepo(futures, j) => i = j))
    /\ [][(Spawned /\ futures # <<>>) =>
            /\ packages_added \subseteq packages_added'
            /\ \A i \in 1..Len(futures') : TaskRepo(futures', i) \notin packages_added]_vars

\* A call has ended after four frontiers, the later ones naming repositories
\* again that had their task, with other versions.
C17_Witness ==
    /\ ret.kind = "Ok" /\ rounds = 4 /\ Cardinality(packages_added) = 4
    /\ Len(config) = 4

\* The package generate_package_file is called on, its manifest and directories.
GenEntry == gen.cache[gen.path]
GenManifest == ArchiveConfig(GenEntry.owner, GenEntry.repo, GenEntry.tag)
GenDirs == DOMAIN ArchiveDirs(GenEntry.owner, GenEntry.repo, GenEntry.tag)

\* What the call is to leave in the metadata file, and what it is to return.
GenExpected ==
    IF GenEntry.pkgfile # None THEN [res |-> "Ok", pkgfile |-> GenEntry.pkgfile]
    ELSE IF GenManifest # None
    THEN [res |-> "Ok",
          pkgfile |-> Some([include_dir |-> IF GenManifest[1].include_dir = None
                                            THEN <<"include">>
                                            ELSE GenManifest[1].include_dir[1],
                            source_dir |-> IF GenManifest[1].src_dir = None
                                           THEN <<"src">>
                                           ELSE GenManifest[1].src_dir[1]])]
    ELSE IF {<< <<"include">> >>, << <<"src">> >>} \subseteq GenDirs
    THEN [res |-> "Ok", pkgfile |-> Some([include_dir |-> <<"include">>, source_dir |-> <<"src">>])]
    ELSE [res |-> "PkgAmbiguous", pkgfile |-> None]

\* C18: generate_package_file decides in the order metadata, manifest,
\* include/ and src/, ambiguous; it writes nothing but the metadata file of
\* its package, and a call after a successful one changes nothing.
C18_GenerateOrder ==
    [][gen'.calls # gen.calls =>
        /\ gen'.calls[Len(gen'.calls)] = GenExpected.res
        /\ gen'.cache = [gen.cache EXCEPT ![gen.path].pkgfile = GenExpected.pkgfile]
        /\ (gen.calls # <<>> /\ gen.calls[Len(gen.calls)] = "Ok") => gen'.cache = gen.cache]_vars

\* Two calls were made on a package whose manifest names its source
\* directory: the first wrote the metadata, the second returned Ok.
C18_Witness ==
    /\ gen.calls = <<"Ok", "Ok">>
    /\ gen.cache[gen.path].repo = <<"g">>
    /\ gen.cache[gen.path].pkgfile = Some([include_dir |-> <<"include">>, source_dir |-> <<"lib">>])

\* The directory of an installed package that its metadata declares for a
\* category: the include directory for headers, the source directory else.
DeclaredDir(c, path, cat) ==
    IF cat = "header_files" THEN GetIncludeDir(c, path) ELSE GetSourceDir(c, path)

\* C19: every imported header was read from the include directory of its
\* package and every imported source file from its source directory, and
\* each has an extension of its category.
C19_CategoryDirs ==
    \A cat \in {"header_files", "source_code"} : \A f \in DOMAIN local[cat] :
        LET o == local[cat][f]
            path == PackageGlobalPath(o[1], o[2], o[3])
        IN Unpacked(cache, path) =>
              /\ f[Len(f)] \in FileExt(cat)
              /\ DeclaredDir(cache, path, cat) # None
              /\ ReadDir(cache, path, DeclaredDir(cache, path, cat)[1]) # None
              /\ f \in ReadDir(cache, path, DeclaredDir(cache, path, cat)[1])[1]

\* C20: an import only adds files: every file of dependencies/<category>/
\* is still there with the same content after any step, so after every
\* copy_deps_global_to_local that returned Ok.
C20_ImportOnlyAdds ==
    [][\A cat \in CategorySet : \A f \in DOMAIN local[cat] :
          f \in DOMAIN local'[cat] /\ local'[cat][f] = local[cat][f]]_vars

\* A command has returned Ok with files of two packages imported side by side.
C20_Witness ==
    /\ ret.kind = "Ok" /\ era = "legacy"
    /\ \E cat1, cat2 \in CategorySet :
          \E f \in DOMAIN local[cat1], g \in DOMAIN local[cat2] :
              local[cat1][f][2] # local[cat2][g][2]

\* Directory p was created by an install_globally that did not unpack its
\* archive, and no task is downloading into it.
Incomplete(p) ==
    /\ cache[p].state = "partial"
    /\ \A i \in 1..Len(futures) : ~(futures[i].pc = "download" /\ TaskPath(futures[i]) = p)

\* C21: a cache directory left incomplete by a failed install_globally stays
\* present and incomplete until the cache is purged: every later
\* install_globally for it returns Ok at once and requests no archive.
C21_IncompleteNeverRepaired ==
    [][\A p \in DOMAIN cache :
          (Incomplete(p) /\ purges' = purges) =>
              /\ p \in DOMAIN cache' /\ cache'[p].state = "partial"
              /\ fetched'[p] = fetched[p]
              /\ \A i \in 1..Len(futures) :
                    (InstallCalled(i, p) /\ futures' # <<>>) =>
                        futures'[i].install = "Existed"]_vars

\* A task found the incomplete directory of a failed download and its
\* install_globally returned Ok without a request.
C21_Witness ==
    \E i \in 1..Len(futures) :
        /\ futures[i].install = "Existed" /\ futures[i].pc = "done"
        /\ TaskPath(futures[i]) \in DOMAIN cache
        /\ Incomplete(TaskPath(futures[i]))
        /\ fetched[TaskPath(futures[i])] = 1

\* C22: processes that run install_globally for one package can race: a
\* process that returns Ok at its existence test has sent no request and
\* knows no more than that the directory exists, which another process may
\* have created and not yet unpacked.
C22_EarlyReturnOnlySeesDir ==
    \A p \in Procs :
        (race.proc[p].ret = "Ok" /\ race.proc[p].saw = "existed") =>
            (race.dir # "absent" /\ ~race.proc[p].sent)

\* One process created the directory and is still downloading; another has
\* found the path and returned Ok on the directory that is not unpacked.
C22_Witness ==
    \E p, q \in Procs :
        /\ race.proc[p].ret = "Ok" /\ race.proc[p].saw = "existed"
        /\ race.proc[q].pc = "download" /\ race.proc[q].saw = "missing"
        /\ race.dir = "partial" /\ race.requests = 1

\* C23: after generate_package_file reported Ambiguous, the metadata
\* add_package writes holds the entered source path as source_dir and the
\* entered include path as include_dir, each trimmed of whitespace and of
\* leading and trailing "/".
C23_PromptedMetadata ==
    (gen.calls # <<>> /\ gen.lines # <<>>) =>
        PkgFileAt(gen.cache, gen.path) =
            Some([include_dir |-> TrimMatchesSlash(Trim(gen.lines[2])),
                  source_dir |-> TrimMatchesSlash(Trim(gen.lines[1]))])

\* C24: the metadata build_ingot writes records what the staging directory
\* offers: staticlib_support holds exactly when a static library was staged,
\* source_support exactly when a source file was staged, sys_libs are the
\* system libraries the build requires and ingot_deps is the dependency list
\* of the manifest.
C24_MetadataRecordsOffer ==
    build.pc = "staged" =>
        LET md == build.ingot_md[1]
            cc == build.builder[1].compile_cmd
        IN /\ md.staticlib_support = (cc.static_libs # {})
           /\ md.source_support = (cc.source_files # {})
           /\ SeqToSet(md.sys_libs) = cc.sys_libs
           /\ md.ingot_deps = build.cfg.dependency

\* The paths build_ingot copies from: sources, static libraries and the files
\* of the include directories.
StagedFrom(b, lines) ==
    b.compile_cmd.source_files \cup b.compile_cmd.static_libs
        \cup HeaderPaths(b.compile_cmd, lines)

\* C25: build_ingot returns normally, and after it build/ingot holds exactly
\* one file per name among the files this run copied plus ingot.toml, each
\* copied from a file of that name: nothing of an earlier staging is left,
\* and files of one name end as a single file.
C25_StagingHoldsThisRunOnly ==
    build.pc = "staged" =>
        /\ build.outcome = "Ok"
        /\ build.staging # None
        /\ LET paths == StagedFrom(build.builder[1], build.lines)
               staged == build.staging[1]
           IN /\ DOMAIN staged = {Basename(q) : q \in paths} \cup {PACKAGE_CONFIG_FILE}
              /\ \A n \in DOMAIN staged :
                    /\ Basename(staged[n]) = n
                    /\ n # PACKAGE_CONFIG_FILE => staged[n] \in paths

\* build_ingot ran over a stale staging directory with two sources of one
\* name.
C25_Witness ==
    /\ build.pc = "staged"
    /\ build.prior = Some(StaleStaging)
    /\ \E q1, q2 \in build.builder[1].compile_cmd.source_files :
          q1 # q2 /\ Basename(q1) = Basename(q2)

\* The positions of the word -o in a command line.
DashO(cmdline) == {i \in 1..Len(cmdline) : cmdline[i] = <<"-o">>}

\* C26: in the command line build_exe runs, -o occurs exactly once and the
\* word right after it is the configured output path.
C26_OutputFollowsDashO ==
    (build.builder # None /\ build.cmdline # <<>>) =>
        /\ Cardinality(DashO(build.cmdline)) = 1
        /\ \A i \in DashO(build.cmdline) :
              /\ i < Len(build.cmdline)
              /\ build.cmdline[i + 1] = Quoted(OutputFilepath(build.cfg, build.profile))

\* C27: attach_ingot returns on every ingot graph, the cycle o/a@1 <-> o/b@10
\* included, and a ProjBuilder reads each global cache path at most once:
\* the directories read are without repetition and are exactly the attached
\* paths, and attaching an ingot that is attached already changes nothing.
C27_EachPathReadOnce ==
    build.builder # None =>
        LET b == build.builder[1]
        IN /\ \A i, j \in 1..Len(b.reads) : b.reads[i] = b.reads[j] => i = j
           /\ SeqToSet(b.reads) = b.ingots
           /\ \A ingot \in KnownIngots :
                 LET again == AttachIngot(b, ingot)
                 IN /\ \A i, j \in 1..Len(again.reads) :
                          again.reads[i] = again.reads[j] => i = j
                    /\ PathStr(DependencyGlobalPath(ingot)) \in b.ingots => again = b

\* Both ingots of the cycle were attached by one call, and o/a@2 besides.
C27_Witness ==
    /\ build.builder # None
    /\ Len(build.builder[1].reads) = 3
    /\ build.builder[1].reads[1] = PathStr(DependencyGlobalPath(IngotB))
    /\ build.builder[1].reads[2] = PathStr(DependencyGlobalPath(IngotA))
    /\ build.cfg.dependency = <<IngotB, IngotA2>>

\* The ingots a compile command draws from: those whose directory is among
\* its include directories.
DrawnFrom(cc) == {k \in KnownIngots : IngotDir(k) \in cc.include_dirs}

\* C28: once every dependency of a manifest that names no repository twice
\* is attached, the compile command draws from at most one version of any
\* (owner, repository), whatever the ingot_deps of the attached ingots name.
C28_OneVersionPerRepo ==
    (/\ build.builder # None
     /\ \A i, j \in 1..Len(build.cfg.dependency) :
           WeakEq(build.cfg.dependency[i], build.cfg.dependency[j]) => i = j
     /\ \A i \in 1..Len(build.cfg.dependency) :
           PathStr(DependencyGlobalPath(build.cfg.dependency[i])) \in build.builder[1].ingots) =>
        \A k1, k2 \in DrawnFrom(build.builder[1].compile_cmd) : WeakEq(k1, k2) => k1 = k2

\* C30: the step in which add_package aborts on a file name that exists (the
\* process exits) leaves no file of the aborted package in the category
\* directories imported before the failing one: each of them holds the names
\* it held when add_package began its imports.
C30_AbortRemovesEarlierCategories ==
    [][(ret'.kind = "Exit" /\ ret.kind # "Exit") =>
          \A cat \in DOMAIN local \ {collision'.cat} :
              DOMAIN local'[cat] = DOMAIN local[cat]]_vars

====
